---- MODULE Spec2Model ----
(***************************************************************************)
(* Model of pr-summary-bot/hello.py: the coroutine main() that starts a    *)
(* CopilotClient, creates one session, sends one prompt with a timeout,    *)
(* prints the reply, destroys the session and stops the client, with the   *)
(* client stop in a finally block.  Every awaited SDK call is modelled as  *)
(* an invocation followed by a return or a raise chosen by the remote      *)
(* service; Python's try/finally and exception chaining are modelled as    *)
(* the interpreter executes them.                                          *)
(***************************************************************************)
EXTENDS Naturals, Integers, Sequences, FiniteSets

VARIABLES
    pc,         \* statement main() is at
    awaiting,   \* TRUE while the awaited call of pc is in flight
    trace,      \* every call, return and raise so far, in order
    client,     \* "created" | "started" | "stopped"
    session,    \* "none" | "active" | "destroyed"
    response,   \* content id bound to `response`, 0 while unbound
    elapsed,    \* time units send_and_wait has been waiting
    exc,        \* exception pending in / propagated out of main()
    context,    \* __context__ of exc: the exception it replaced
    output,     \* contents written to standard output
    exit_code   \* -1 while running, then the process exit status

vars == <<pc, awaiting, trace, client, session, response, elapsed,
          exc, context, output, exit_code>>

\* timeout=60.0 of send_and_wait, in time units
Timeout == 60

\* number of distinct response contents the service may answer with
MaxContent == 2

Contents == 1..MaxContent

Ops == {"start", "create_session", "send_and_wait", "print", "destroy", "stop"}

Errors == {"ConnectionError", "SessionCreationError", "TimeoutError",
           "RequestError", "PrintError", "DestroyError", "StopError"}

Event(op, kind, err) == [op |-> op, kind |-> kind, err |-> err]

Log(op, kind, err) == Append(trace, Event(op, kind, err))

Init ==
    /\ pc = "start"
    /\ awaiting = FALSE
    /\ trace = << >>
    /\ client = "created"
    /\ session = "none"
    /\ response = 0
    /\ elapsed = 0
    /\ exc = "none"
    /\ context = "none"
    /\ output = << >>
    /\ exit_code = -1

\* ---- Python control flow -------------------------------------------------

\* an exception leaves main(): asyncio.run re-raises it, the process exits 1
Propagate(e, ctx) ==
    /\ pc' = "done"
    /\ awaiting' = FALSE
    /\ exc' = e
    /\ context' = ctx
    /\ exit_code' = 1

\* an exception raised inside the try body: control enters the finally block
\* with the exception pending
RaiseInTry(e) ==
    /\ pc' = "stop"
    /\ awaiting' = FALSE
    /\ exc' = e
    /\ context' = "none"
    /\ exit_code' = exit_code

\* the next statement of the try body
Goto(next) ==
    /\ pc' = next
    /\ awaiting' = FALSE
    /\ UNCHANGED <<exc, context, exit_code>>

\* an awaited call is issued
Call(op) ==
    /\ pc = op
    /\ ~awaiting
    /\ awaiting' = TRUE
    /\ trace' = Log(op, "call", "none")
    /\ UNCHANGED <<pc, client, session, response, exc, context, output,
                   exit_code>>

\* ---- await client.start() ------------------------------------------------

StartCall ==
    /\ Call("start")
    /\ UNCHANGED elapsed

StartReturn ==
    /\ pc = "start" /\ awaiting
    /\ trace' = Log("start", "return", "none")
    /\ client' = "started"
    /\ Goto("create_session")
    /\ UNCHANGED <<session, response, elapsed, output>>

\* variant: start() placed inside the try, so its error runs the finally block
StartRaise_InsideTry ==
    /\ pc = "start" /\ awaiting
    /\ trace' = Log("start", "raise", "ConnectionError")
    /\ RaiseInTry("ConnectionError")
    /\ UNCHANGED <<client, session, response, elapsed, output>>

\* start() is outside the try: its error leaves main() directly
StartRaise ==
    /\ pc = "start" /\ awaiting
    /\ trace' = Log("start", "raise", "ConnectionError")
    /\ Propagate("ConnectionError", "none")
    /\ UNCHANGED <<client, session, response, elapsed, output>>

\* ---- session = await client.create_session(...) --------------------------

CreateSessionCall ==
    /\ Call("create_session")
    /\ UNCHANGED elapsed

CreateSessionReturn ==
    /\ pc = "create_session" /\ awaiting
    /\ trace' = Log("create_session", "return", "none")
    /\ session' = "active"
    /\ Goto("send_and_wait")
    /\ UNCHANGED <<client, response, elapsed, output>>

\* variant: the creation error is swallowed and the happy path continues
CreateSessionRaise_Continue ==
    /\ pc = "create_session" /\ awaiting
    /\ trace' = Log("create_session", "raise", "SessionCreationError")
    /\ Goto("send_and_wait")
    /\ UNCHANGED <<client, session, response, elapsed, output>>

CreateSessionRaise ==
    /\ pc = "create_session" /\ awaiting
    /\ trace' = Log("create_session", "raise", "SessionCreationError")
    /\ RaiseInTry("SessionCreationError")
    /\ UNCHANGED <<client, session, response, elapsed, output>>

\* ---- response = await session.send_and_wait(..., timeout=60.0) -----------

SendAndWaitCall ==
    /\ Call("send_and_wait")
    /\ elapsed' = 0

SendAndWaitTick ==
    /\ pc = "send_and_wait" /\ awaiting
    /\ elapsed < Timeout
    /\ elapsed' = elapsed + 1
    /\ UNCHANGED <<pc, awaiting, trace, client, session, response, exc,
                   context, output, exit_code>>

SendAndWaitReturn ==
    /\ pc = "send_and_wait" /\ awaiting
    /\ elapsed < Timeout
    /\ \E c \in Contents : response' = c
    /\ trace' = Log("send_and_wait", "return", "none")
    /\ elapsed' = 0
    /\ Goto("print")
    /\ UNCHANGED <<client, session, output>>

SendAndWaitTimeout ==
    /\ pc = "send_and_wait" /\ awaiting
    /\ elapsed = Timeout
    /\ trace' = Log("send_and_wait", "raise", "TimeoutError")
    /\ elapsed' = 0
    /\ RaiseInTry("TimeoutError")
    /\ UNCHANGED <<client, session, response, output>>

\* variant: the request error is swallowed and the reply is printed anyway
SendAndWaitRaise_Continue ==
    /\ pc = "send_and_wait" /\ awaiting
    /\ elapsed < Timeout
    /\ trace' = Log("send_and_wait", "raise", "RequestError")
    /\ elapsed' = 0
    /\ Goto("print")
    /\ UNCHANGED <<client, session, response, output>>

SendAndWaitRaise ==
    /\ pc = "send_and_wait" /\ awaiting
    /\ elapsed < Timeout
    /\ trace' = Log("send_and_wait", "raise", "RequestError")
    /\ elapsed' = 0
    /\ RaiseInTry("RequestError")
    /\ UNCHANGED <<client, session, response, output>>

\* ---- print(response.data.content) ----------------------------------------

\* variant: the destroy statement is missing after the print
PrintOk_SkipDestroy ==
    /\ pc = "print"
    /\ output' = Append(output, response)
    /\ trace' = Log("print", "return", "none")
    /\ Goto("stop")
    /\ UNCHANGED <<client, session, response, elapsed>>

PrintOk ==
    /\ pc = "print"
    /\ output' = Append(output, response)
    /\ trace' = Log("print", "return", "none")
    /\ Goto("destroy")
    /\ UNCHANGED <<client, session, response, elapsed>>

\* variant: the content reaches standard output before print raises
PrintRaise_AfterWrite ==
    /\ pc = "print"
    /\ output' = Append(output, response)
    /\ trace' = Log("print", "raise", "PrintError")
    /\ RaiseInTry("PrintError")
    /\ UNCHANGED <<client, session, response, elapsed>>

PrintRaise ==
    /\ pc = "print"
    /\ trace' = Log("print", "raise", "PrintError")
    /\ RaiseInTry("PrintError")
    /\ UNCHANGED <<client, session, response, elapsed, output>>

\* ---- await session.destroy() ---------------------------------------------

DestroyCall ==
    /\ Call("destroy")
    /\ UNCHANGED elapsed

\* the try body ends normally: the finally block runs with nothing pending
DestroyReturn ==
    /\ pc = "destroy" /\ awaiting
    /\ trace' = Log("destroy", "return", "none")
    /\ session' = "destroyed"
    /\ Goto("stop")
    /\ UNCHANGED <<client, response, elapsed, output>>

\* variant: destroy() placed after the try/finally, so its error skips stop()
DestroyRaise_NoFinally ==
    /\ pc = "destroy" /\ awaiting
    /\ trace' = Log("destroy", "raise", "DestroyError")
    /\ session' \in {"active", "destroyed"}
    /\ Propagate("DestroyError", "none")
    /\ UNCHANGED <<client, response, elapsed, output>>

\* a failed destroy leaves the remote session in either state
DestroyRaise ==
    /\ pc = "destroy" /\ awaiting
    /\ trace' = Log("destroy", "raise", "DestroyError")
    /\ session' \in {"active", "destroyed"}
    /\ RaiseInTry("DestroyError")
    /\ UNCHANGED <<client, response, elapsed, output>>

\* ---- finally: await client.stop() ----------------------------------------

StopCall ==
    /\ Call("stop")
    /\ UNCHANGED elapsed

\* variant: the finally block ends in a return, which discards a pending
\* exception
StopReturn_Swallow ==
    /\ pc = "stop" /\ awaiting
    /\ trace' = Log("stop", "return", "none")
    /\ client' = "stopped"
    /\ pc' = "done"
    /\ awaiting' = FALSE
    /\ exit_code' = 0
    /\ exc' = "none"
    /\ context' = "none"
    /\ UNCHANGED <<session, response, elapsed, output>>

\* end of the finally block: a pending exception is re-raised, otherwise
\* main() returns and the process exits 0
StopReturn ==
    /\ pc = "stop" /\ awaiting
    /\ trace' = Log("stop", "return", "none")
    /\ client' = "stopped"
    /\ IF exc = "none"
         THEN /\ pc' = "done"
              /\ awaiting' = FALSE
              /\ exit_code' = 0
              /\ UNCHANGED <<exc, context>>
         ELSE Propagate(exc, context)
    /\ UNCHANGED <<session, response, elapsed, output>>

\* an exception raised in the finally block replaces the pending one, which
\* becomes its __context__
StopRaise ==
    /\ pc = "stop" /\ awaiting
    /\ trace' = Log("stop", "raise", "StopError")
    /\ Propagate("StopError", exc)
    /\ UNCHANGED <<client, session, response, elapsed, output>>

Next ==
    \/ StartCall
    \/ StartReturn
    \/ StartRaise
    \/ CreateSessionCall
    \/ CreateSessionReturn
    \/ CreateSessionRaise
    \/ SendAndWaitCall
    \/ SendAndWaitTick
    \/ SendAndWaitReturn
    \/ SendAndWaitTimeout
    \/ SendAndWaitRaise
    \/ PrintOk
    \/ PrintRaise
    \/ DestroyCall
    \/ DestroyReturn
    \/ DestroyRaise
    \/ StopCall
    \/ StopReturn
    \/ StopRaise

Spec == Init /\ [][Next]_vars

\* the event loop keeps running the one task, and every remote call
\* eventually returns or fails
FairSpec == Spec /\ WF_vars(Next)

\* ---- observations on the trace -------------------------------------------

Idx == DOMAIN trace

IsEv(i, op, kind) == trace[i].op = op /\ trace[i].kind = kind

\* number of times op was invoked (print is a plain call: it returns or raises)
Invoked(op) ==
    IF op = "print"
      THEN Cardinality({i \in Idx : trace[i].op = "print"})
      ELSE Cardinality({i \in Idx : IsEv(i, op, "call")})

Succeeded(op) == \E i \in Idx : IsEv(i, op, "return")

Failed(op) == \E i \in Idx : IsEv(i, op, "raise")

Failures == {op \in Ops : Failed(op)}

RaiseIdx == {i \in Idx : trace[i].kind = "raise"}

\* the first error raised during the run
FirstError ==
    IF RaiseIdx = {} THEN "none"
    ELSE trace[CHOOSE i \in RaiseIdx : \A j \in RaiseIdx : i <= j].err

TypeOK ==
    /\ pc \in Ops \cup {"done"}
    /\ awaiting \in BOOLEAN
    /\ client \in {"created", "started", "stopped"}
    /\ session \in {"none", "active", "destroyed"}
    /\ response \in 0..MaxContent
    /\ elapsed \in 0..Timeout
    /\ exc \in Errors \cup {"none"}
    /\ context \in Errors \cup {"none"}
    /\ exit_code \in {-1, 0, 1}

\* ---- claims --------------------------------------------------------------

\* C1: in every run in which create_session succeeded, session.destroy() is
\* invoked before main() returns or raises, whatever send_and_wait did.
C1_DestroyAlwaysInvoked ==
    (pc = "done" /\ Succeeded("create_session")) => Invoked("destroy") >= 1

\* C2: in every run in which client.start() succeeded, client.stop() is
\* invoked exactly once before main() returns or raises (and never more than
\* once at any point), whatever create_session, send_and_wait, print and
\* destroy did.
C2_StopExactlyOnce ==
    /\ Invoked("stop") <= 1
    /\ (pc = "done" /\ Succeeded("start")) => Invoked("stop") = 1

C2_Witness ==
    /\ pc = "done"
    /\ Failed("create_session")
    /\ Invoked("stop") = 1

\* C3: a run in which no call fails contains exactly one start, one
\* create_session, one send_and_wait, one destroy and one stop.
C3_OneOfEach ==
    (pc = "done" /\ Failures = {}) =>
        \A op \in Ops \ {"print"} :
            /\ Invoked(op) = 1
            /\ Cardinality({i \in Idx : IsEv(i, op, "return")}) = 1

C3_Witness ==
    /\ pc = "done"
    /\ Failures = {}
    /\ Invoked("destroy") = 1
    /\ Invoked("stop") = 1

\* C4: if client.start() fails, main() raises that error and create_session,
\* send_and_wait, destroy and stop are never invoked.
C4_StartFailureReleasesNothing ==
    Failed("start") =>
        /\ pc = "done"
        /\ exit_code = 1
        /\ exc = "ConnectionError"
        /\ \A i \in Idx : trace[i].op = "start"

C4_Witness ==
    /\ Failed("start")
    /\ pc = "done"

\* C5: the error main() surfaces is always the first error raised during the
\* run, also when the cleanup call client.stop() fails afterwards.
C5_FirstErrorSurfaces ==
    (pc = "done" /\ exit_code = 1) => exc = FirstError

\* C6: every run terminates, and it terminates with exit 0 if and only if
\* none of start, create_session, send_and_wait, print, destroy and stop
\* failed; any failure ends the run with a propagated error.
C6_TerminatesWithStatus ==
    /\ <>(pc = "done")
    /\ [](pc = "done" =>
            /\ exit_code \in {0, 1}
            /\ (exit_code = 0 <=> Failures = {})
            /\ (exit_code = 1 <=> exc # "none"))

C6_Witness ==
    /\ pc = "done"
    /\ exit_code = 1
    /\ Failures = {"stop"}

\* C7: client.stop() is never invoked while a session created from the client
\* is still active (created and not yet destroyed).
C7_NoStopWhileSessionActive ==
    Invoked("stop") >= 1 => session # "active"

\* C8: acquisition and release are strictly nested: create_session is invoked
\* only after start has succeeded and before stop; send_and_wait is invoked
\* only on a session that was created and not yet destroyed; and destroy,
\* when both occur, precedes stop.
C8_StrictNesting ==
    \A i \in Idx :
        /\ IsEv(i, "create_session", "call") =>
              /\ \E j \in 1..(i - 1) : IsEv(j, "start", "return")
              /\ \A j \in 1..(i - 1) : trace[j].op # "stop"
        /\ IsEv(i, "send_and_wait", "call") =>
              /\ \E j \in 1..(i - 1) : IsEv(j, "create_session", "return")
              /\ \A j \in 1..(i - 1) : trace[j].op # "destroy"
        /\ IsEv(i, "stop", "call") =>
              \A j \in Idx : trace[j].op = "destroy" => j < i

C8_Witness ==
    /\ pc = "done"
    /\ Invoked("send_and_wait") = 1
    /\ Invoked("destroy") = 1
    /\ Invoked("stop") = 1

\* C9 (as stated): the content is written at most once, only after
\* send_and_wait returned, and a run that ends with a propagated error has
\* produced no output.
C9_NoOutputOnFailure ==
    /\ Len(output) <= 1
    /\ output # << >> => Succeeded("send_and_wait")
    /\ (pc = "done" /\ exit_code = 1) => output = << >>

\* C9 (amended): the content is written at most once, only after
\* send_and_wait returned, and it is the content send_and_wait returned; a
\* run that ends with a propagated error has produced output only if every
\* failure of the run was in session.destroy() or client.stop().
C9_OutputOnlyBeforeCleanupFailure ==
    /\ Len(output) <= 1
    /\ output # << >> =>
          /\ Succeeded("send_and_wait")
          /\ output = <<response>>
    /\ (pc = "done" /\ exit_code = 1 /\ output # << >>) =>
          /\ Failures # {}
          /\ Failures \subseteq {"destroy", "stop"}

C9_Witness ==
    /\ pc = "done"
    /\ exit_code = 1
    /\ Len(output) = 1
    /\ Failed("destroy")

\* C10: nothing is retried and a failure aborts the happy path: every call
\* is invoked at most once per run, and after a failure of start,
\* create_session or send_and_wait only release calls follow.
C10_NoRetryNoContinue ==
    /\ \A op \in Ops : Invoked(op) <= 1
    /\ \A i \in Idx :
          (trace[i].kind = "raise"
              /\ trace[i].op \in {"start", "create_session", "send_and_wait"})
          => \A j \in Idx : j > i => trace[j].op \in {"destroy", "stop"}

C10_Witness ==
    /\ pc = "done"
    /\ Failed("send_and_wait")
    /\ Invoked("stop") = 1

====
